---- MODULE Spec2Model ----
(***************************************************************************)
(* Weighted shortest paths of networkx/algorithms/shortest_paths/weighted.py *)
(* as state machines: Dijkstra (multi-source core and facades),            *)
(* Bellman-Ford/SPFA, Goldberg-Radzik, bidirectional Dijkstra, Johnson and *)
(* the negative-cycle probe.  A Python dict is a TLA+ function whose       *)
(* DOMAIN is the key set; a list or tuple is a sequence; a value that may   *)
(* be None is the set {} (None) or {x}; an edge attribute dict is {} (no   *)
(* weight key) or {w}.  One action is one iteration of the loop it is      *)
(* named after.                                                            *)
(***************************************************************************)
EXTENDS Integers, Sequences, FiniteSets, TLC

VARIABLES
    G_nodes,        \* the nodes of G
    G_succ,         \* G._succ / G._adj: node -> list of <<neighbour, edge data>>, in dict order
    G_pred,         \* G._pred: reverse adjacency, in dict order
    directed,       \* G.is_directed()
    G_before,       \* the graph as it was when the call started (history)
    prev_result,    \* <<err, result>> of an earlier call, or None (history)
    func,           \* the public entry point that was called
    sources,        \* list of source nodes
    target,         \* target node or None
    cutoff,         \* cutoff or None
    node_weight,    \* node_weight map or None
    hidden,         \* the pairs <<u, v>> for which the weight callable returns None
    heuristic,      \* Bellman-Ford heuristic flag
    pc,             \* position of the call: "call", a loop name, "done", "raised"
    err,            \* the exception raised, or NoErr
    result,         \* the value returned: None until the call returns
    dist,           \* dict of final distances (Dijkstra) / distances (Bellman-Ford)
    seen,           \* Dijkstra: dict of tentative distances
    fringe,         \* Dijkstra: heap of <<distance, counter, node>>
    c,              \* Dijkstra: itertools.count()
    paths,          \* dict of paths (left empty when not requested)
    pred,           \* dict of predecessor lists (left empty when not requested)
    q,              \* Bellman-Ford: deque
    in_q,           \* Bellman-Ford: set of queued nodes
    count,          \* Bellman-Ford: enqueue counters
    pred_edge,      \* Bellman-Ford heuristic storage
    recent_update,  \* Bellman-Ford heuristic storage
    skipped,        \* Bellman-Ford: some popped node was not relaxed (history)
    d,              \* Goldberg-Radzik: distance labels
    relabeled,      \* Goldberg-Radzik: nodes relabeled in the last round, in iteration order
    to_scan,        \* Goldberg-Radzik: nodes to scan in this round
    dists,          \* bidirectional: [forward, backward] final distances
    finaldist,      \* bidirectional: best total distance, None while unassigned
    finalpath,      \* bidirectional: best path
    dir,            \* bidirectional: direction of the last expansion
    dist_bellman,   \* johnson: Bellman-Ford potential
    todo,           \* johnson: the nodes v of `for v in G` not yet completed
    all_paths       \* johnson: the dict {v: dist_path(v)} built so far

graphVars == <<G_nodes, G_succ, G_pred, directed, G_before, prev_result>>
argVars == <<func, sources, target, cutoff, node_weight, hidden, heuristic>>
dijkVars == <<dist, seen, fringe, c, paths, pred>>
bfVars == <<q, in_q, count, pred_edge, recent_update, skipped>>
grVars == <<d, relabeled, to_scan>>
biVars == <<dists, finaldist, finalpath, dir>>
johnVars == <<dist_bellman, todo, all_paths>>
vars == <<graphVars, argVars, pc, err, result, dijkVars, bfVars, grVars, biVars, johnVars>>

\* Bounds of the model.
MaxNodes == 3
MaxEdges == 2
MaxWeight == 1

None == {}
Some(x) == {x}
The(o) == CHOOSE x \in o : TRUE
NoErr == "none"
\* An edge attribute dict without the weight key.
NoData == {}

Put(f, k, v) == [x \in DOMAIN f \cup {k} |-> IF x = k THEN v ELSE f[x]]
Get(f, k, default) == IF k \in DOMAIN f THEN f[k] ELSE default
Empty == <<>>
Range(s) == {s[i] : i \in DOMAIN s}
Reverse(s) == [i \in 1..Len(s) |-> s[Len(s) + 1 - i]]

(***************************************************************************)
(* The graph container (external to this file): adjacency dicts that keep  *)
(* insertion order.                                                        *)
(***************************************************************************)
HasNbr(adj, u, v) == \E i \in 1..Len(adj[u]) : adj[u][i][1] = v

AddArc(adj, u, v, e) ==
    IF HasNbr(adj, u, v)
    THEN [adj EXCEPT ![u] = [i \in 1..Len(@) |-> IF @[i][1] = v THEN <<v, e>> ELSE @[i]]]
    ELSE [adj EXCEPT ![u] = Append(@, <<v, e>>)]

\* G.add_edge(u, v, weight=e): a graph is <<succ, pred>>.
AddEdge(g, isdir, u, v, e) ==
    IF isdir
    THEN <<AddArc(g[1], u, v, e), AddArc(g[2], v, u, e)>>
    ELSE LET a == AddArc(AddArc(g[1], u, v, e), v, u, e) IN <<a, a>>

RECURSIVE AddEdgesFrom(_, _, _, _)
AddEdgesFrom(g, isdir, es, i) ==
    IF i > Len(es) THEN g
    ELSE AddEdgesFrom(AddEdge(g, isdir, es[i][1], es[i][2], es[i][3]), isdir, es, i + 1)

\* G.add_node(x)
AddNode(g, x) ==
    IF x \in DOMAIN g[1] THEN g ELSE <<Put(g[1], x, <<>>), Put(g[2], x, <<>>)>>

\* The entries of an adjacency list whose neighbour is not x.
RECURSIVE Without(_, _)
Without(lst, x) ==
    IF lst = <<>> THEN <<>>
    ELSE IF Head(lst)[1] = x THEN Without(Tail(lst), x)
    ELSE <<Head(lst)>> \o Without(Tail(lst), x)

\* G.remove_node(x), for x in G
RemoveNode(g, x) ==
    <<[u \in DOMAIN g[1] \ {x} |-> Without(g[1][u], x)],
      [u \in DOMAIN g[2] \ {x} |-> Without(g[2][u], x)]>>

EmptyGraph(ns) == <<[u \in ns |-> <<>>], [u \in ns |-> <<>>]>>

EdgeLists(ns, W) == UNION {[1..k -> ns \X ns \X W] : k \in 0..MaxEdges}

NonNegWeights == 0..MaxWeight
AnyWeights == (0 - MaxWeight)..MaxWeight

\* _weight_function for an attribute key on a non-multigraph: data.get(weight, 1).
weight(u, v, e) == IF e = NoData THEN 1 ELSE The(e)

\* Mutant of new_weight: the potential of the head node is not subtracted.
new_weight_NoHead(u, v, e) == weight(u, v, e) + dist_bellman[u]

\* Mutant of new_weight: the potential of the tail node is not added.
new_weight_NoTail(u, v, e) == weight(u, v, e) - dist_bellman[v]

\* johnson.new_weight
new_weight(u, v, e) == weight(u, v, e) + dist_bellman[u] - dist_bellman[v]

\* The weight callable in force: johnson hands new_weight to Dijkstra.
Weight(u, v, e) ==
    IF func = "johnson" /\ pc = "dijkstra" THEN new_weight(u, v, e) ELSE weight(u, v, e)

(***************************************************************************)
(* _dijkstra_multisource                                                   *)
(***************************************************************************)
\* Mutant of PopMin: the entry pushed last is popped.
PopMin_Last(h) == CHOOSE t \in h : \A s \in h : t[2] >= s[2]

\* heappop: the least <<distance, counter, node>>; the counter is unique.
PopMin(h) ==
    CHOOSE t \in h : \A s \in h : t[1] < s[1] \/ (t[1] = s[1] /\ t[2] <= s[2])

\* The node_weight the core receives: dijkstra_path_length and
\* single_source_dijkstra_path_length pass node_weight=None whatever they were given.
NodeWeight ==
    IF func \in {"dijkstra_path_length", "single_source_dijkstra_path_length"}
    THEN None ELSE node_weight

\* The initial heap key of a source.
SeedKey(source) == IF NodeWeight = None THEN 0 ELSE The(NodeWeight)[source]

\* Mutant of DijkstraSeed: only the first source is seeded.
DijkstraSeed_FirstOnly(i, st) ==
    [st EXCEPT !.seen = Put(@, sources[1], 0),
               !.fringe = @ \cup {<<SeedKey(sources[1]), st.c, sources[1]>>},
               !.c = @ + 1]

\* for source in sources: ... push(fringe, ...)
RECURSIVE DijkstraSeed(_, _)
DijkstraSeed(i, st) ==
    IF i > Len(sources) \/ st.err # NoErr THEN st
    ELSE LET source == sources[i] IN
         IF source \notin G_nodes
         THEN [st EXCEPT !.err = "NodeNotFound"]
         ELSE DijkstraSeed(i + 1,
                [st EXCEPT !.seen = Put(@, source, 0),
                           !.fringe = @ \cup {<<SeedKey(source), st.c, source>>},
                           !.c = @ + 1])

\* weight(u, v, e) is None
Hidden(u, v) == <<u, v>> \in hidden

\* cost of the edge v -> u as the relaxation computes it.
EdgeCost(v, u, e) ==
    IF NodeWeight = None THEN Weight(v, u, e) ELSE Weight(v, u, e) + The(NodeWeight)[u]

\* if cutoff is not None: if vu_dist > cutoff: continue
CutoffExceeded(vu_dist) == cutoff # None /\ vu_dist > The(cutoff)

\* Mutant of Improves: a tentative distance is never lowered.
Improves_NoDecrease(sn, u, vu_dist) == u \notin DOMAIN sn

\* elif u not in seen or vu_dist < seen[u]
Improves(sn, u, vu_dist) == u \notin DOMAIN sn \/ vu_dist < sn[u]

\* pred is not None / paths is not None: decided by the facade that was called.
PredRequested == func = "dijkstra_predecessor_and_distance"
PathsRequested ==
    func \in {"multi_source_dijkstra", "single_source_dijkstra", "dijkstra_path", "johnson"}

\* Mutant of PredAppend: a tie does not extend the predecessor list.
PredAppend_Drop(pr, u, v) == pr

\* if pred is not None: pred[u].append(v)
PredAppend(pr, u, v) == IF PredRequested THEN [pr EXCEPT ![u] = Append(@, v)] ELSE pr

\* if pred is not None: pred[u] = [v]
PredReset(pr, u, v) == IF PredRequested THEN Put(pr, u, <<v>>) ELSE pr

\* Mutant of PathExtend: the path of a node is written once and never replaced.
PathExtend_KeepFirst(pa, v, u) ==
    IF PathsRequested /\ u \notin DOMAIN pa THEN Put(pa, u, Append(pa[v], u)) ELSE pa

\* if paths is not None: paths[u] = paths[v] + [u]
PathExtend(pa, v, u) == IF PathsRequested THEN Put(pa, u, Append(pa[v], u)) ELSE pa

\* for u, e in G_succ[v].items(): the body at item i, then the rest.
RECURSIVE DijkstraRelax(_, _, _)
DijkstraRelax(v, i, st) ==
    IF i > Len(G_succ[v]) \/ st.err # NoErr THEN st
    ELSE LET u == G_succ[v][i][1]
             e == G_succ[v][i][2]
             cost == EdgeCost(v, u, e)
             vu_dist == st.dist[v] + cost
         IN  IF Hidden(v, u) /\ NodeWeight # None THEN [st EXCEPT !.err = "TypeError"]
             ELSE IF Hidden(v, u) THEN DijkstraRelax(v, i + 1, st)
             ELSE IF CutoffExceeded(vu_dist) THEN DijkstraRelax(v, i + 1, st)
             ELSE IF u \in DOMAIN st.dist
             THEN IF vu_dist < st.dist[u]
                  THEN [st EXCEPT !.err = "Contradictory"]
                  ELSE IF vu_dist = st.dist[u]
                  THEN DijkstraRelax(v, i + 1, [st EXCEPT !.pred = PredAppend(@, u, v)])
                  ELSE DijkstraRelax(v, i + 1, st)
             ELSE IF Improves(st.seen, u, vu_dist)
             THEN DijkstraRelax(v, i + 1,
                    [st EXCEPT !.seen = Put(@, u, vu_dist),
                               !.fringe = @ \cup {<<vu_dist, st.c, u>>},
                               !.c = @ + 1,
                               !.paths = PathExtend(@, v, u),
                               !.pred = PredReset(@, u, v)])
             ELSE IF vu_dist = st.seen[u]
             THEN DijkstraRelax(v, i + 1, [st EXCEPT !.pred = PredAppend(@, u, v)])
             ELSE DijkstraRelax(v, i + 1, st)

DijkstraState == [dist |-> dist, seen |-> seen, fringe |-> fringe, c |-> c,
                  paths |-> paths, pred |-> pred, err |-> NoErr]

\* dijkstra_path and bellman_ford_path keep the path of the pair (length, path).
PathOnly == func \in {"dijkstra_path", "bellman_ford_path"}
Project(val) == IF PathOnly THEN val[2] ELSE val

\* What the facade returns once the core has returned dist.
DijkstraReturn(dst, pa, pr) ==
    CASE func \in {"multi_source_dijkstra", "single_source_dijkstra", "dijkstra_path"} ->
            IF target = None THEN [val |-> Some(<<dst, pa>>), err |-> NoErr]
            ELSE IF The(target) \in DOMAIN dst /\ The(target) \in DOMAIN pa
                 THEN [val |-> Some(Project(<<dst[The(target)], pa[The(target)]>>)),
                       err |-> NoErr]
                 ELSE [val |-> None, err |-> "NoPath"]
      [] func = "dijkstra_path_length" ->
            IF The(target) \in DOMAIN dst
            THEN [val |-> Some(dst[The(target)]), err |-> NoErr]
            ELSE [val |-> None, err |-> "NoPath"]
      [] func = "dijkstra_predecessor_and_distance" ->
            [val |-> Some(<<pr, dst>>), err |-> NoErr]
      [] OTHER -> [val |-> Some(dst), err |-> NoErr]

\* Mutant of AlreadySearched: a popped node is always taken as new.
AlreadySearched_Never(dst, v) == FALSE

\* if v in dist: continue  # already searched this node.
AlreadySearched(dst, v) == v \in DOMAIN dst

\* One iteration of `while fringe:` followed, when the loop ends, by the
\* facade's return.
DijkstraIteration ==
    LET t == PopMin(fringe)
        v == t[3]
        rest == fringe \ {t}
    IN  IF AlreadySearched(dist, v)
        THEN [DijkstraState EXCEPT !.fringe = rest] @@ [stop |-> FALSE]
        ELSE IF target = Some(v)
        THEN [DijkstraState EXCEPT !.fringe = rest, !.dist = Put(dist, v, t[1])]
                @@ [stop |-> TRUE]
        ELSE DijkstraRelax(v, 1,
                [DijkstraState EXCEPT !.fringe = rest, !.dist = Put(dist, v, t[1])])
                @@ [stop |-> FALSE]

\* The control state after the core's state st: raised, returned, or looping.
DijkstraFinish(st, stop) ==
    IF st.err # NoErr
    THEN /\ pc' = "raised" /\ err' = st.err /\ result' = None
    ELSE IF (stop \/ st.fringe = {}) /\ func = "johnson"
    THEN /\ pc' = "dist_path_return" /\ err' = NoErr /\ result' = None
    ELSE IF stop \/ st.fringe = {}
    THEN LET r == DijkstraReturn(st.dist, st.paths, st.pred)
         IN  /\ pc' = IF r.err = NoErr THEN "done" ELSE "raised"
             /\ err' = r.err
             /\ result' = r.val
    ELSE /\ pc' = "dijkstra" /\ err' = NoErr /\ result' = None

SetDijkstra(st) ==
    /\ dist' = st.dist /\ seen' = st.seen /\ fringe' = st.fringe /\ c' = st.c
    /\ paths' = st.paths /\ pred' = st.pred

otherVars == <<bfVars, grVars, biVars, johnVars>>

_dijkstra_multisource ==
    /\ pc = "dijkstra"
    /\ fringe # {}
    /\ LET st == DijkstraIteration
       IN  SetDijkstra(st) /\ DijkstraFinish(st, st.stop)
    /\ UNCHANGED <<graphVars, argVars, otherVars>>

\* The facade up to and including the core's seeding loop.
DijkstraEnter(pa, pr) ==
    LET st == DijkstraSeed(1, [DijkstraState EXCEPT !.paths = pa, !.pred = pr])
    IN  SetDijkstra(st) /\ DijkstraFinish(st, FALSE)

Raise(e) == pc' = "raised" /\ err' = e /\ result' = None
Return(val) == pc' = "done" /\ err' = NoErr /\ result' = Some(val)

\* The body of multi_source_dijkstra, which single_source_dijkstra and
\* dijkstra_path call with sources = {source}.
MultiSourceDijkstraBody ==
    IF Len(sources) = 0
    THEN Raise("ValueError") /\ UNCHANGED dijkVars
    ELSE IF target # None /\ The(target) \in Range(sources)
    THEN Return(Project(<<0, <<The(target)>>>>)) /\ UNCHANGED dijkVars
    ELSE DijkstraEnter([s \in Range(sources) |-> <<s>>], pred)

multi_source_dijkstra ==
    /\ pc = "call"
    /\ func = "multi_source_dijkstra"
    /\ MultiSourceDijkstraBody
    /\ UNCHANGED <<graphVars, argVars, otherVars>>

single_source_dijkstra ==
    /\ pc = "call"
    /\ func = "single_source_dijkstra"
    /\ MultiSourceDijkstraBody
    /\ UNCHANGED <<graphVars, argVars, otherVars>>

\* (length, path) = single_source_dijkstra(G, source, target=target, ...); return path
dijkstra_path ==
    /\ pc = "call"
    /\ func = "dijkstra_path"
    /\ MultiSourceDijkstraBody
    /\ UNCHANGED <<graphVars, argVars, otherVars>>

dijkstra_path_length ==
    /\ pc = "call"
    /\ func = "dijkstra_path_length"
    /\ IF Some(sources[1]) = target
       THEN Return(0) /\ UNCHANGED dijkVars
       ELSE DijkstraEnter(paths, pred)
    /\ UNCHANGED <<graphVars, argVars, otherVars>>

multi_source_dijkstra_path_length ==
    /\ pc = "call"
    /\ func = "multi_source_dijkstra_path_length"
    /\ IF Len(sources) = 0
       THEN Raise("ValueError") /\ UNCHANGED dijkVars
       ELSE DijkstraEnter(paths, pred)
    /\ UNCHANGED <<graphVars, argVars, otherVars>>

dijkstra_predecessor_and_distance ==
    /\ pc = "call"
    /\ func = "dijkstra_predecessor_and_distance"
    /\ DijkstraEnter(paths, [s \in {sources[1]} |-> <<>>])
    /\ UNCHANGED <<graphVars, argVars, otherVars>>

\* multi_source_dijkstra_path_length(G, {source}, ..., node_weight=None)
single_source_dijkstra_path_length ==
    /\ pc = "call"
    /\ func = "single_source_dijkstra_path_length"
    /\ DijkstraEnter(paths, pred)
    /\ UNCHANGED <<graphVars, argVars, otherVars>>

(***************************************************************************)
(* Initial states: the graph and the arguments of the call.                *)
(***************************************************************************)
InitGraph(W, minNodes) ==
    \E n \in minNodes..MaxNodes, isdir \in BOOLEAN :
      \E es \in EdgeLists(1..n, W) :
        LET g == AddEdgesFrom(EmptyGraph(1..n), isdir,
                              [i \in 1..Len(es) |-> <<es[i][1], es[i][2], Some(es[i][3])>>], 1)
        IN  /\ G_nodes = 1..n
            /\ G_succ = g[1]
            /\ G_pred = g[2]
            /\ directed = isdir
            /\ G_before = <<1..n, g[1], g[2]>>

InitLocals ==
    /\ pc = "call" /\ err = NoErr /\ result = None /\ prev_result = None
    /\ dist = Empty /\ seen = Empty /\ fringe = {} /\ c = 0
    /\ paths = Empty /\ pred = Empty
    /\ q = <<>> /\ in_q = {} /\ count = Empty /\ pred_edge = Empty /\ recent_update = Empty
    /\ skipped = FALSE
    /\ d = Empty /\ relabeled = <<>> /\ to_scan = <<>>
    /\ dists = <<Empty, Empty>> /\ finaldist = None /\ finalpath = <<>> /\ dir = 1
    /\ dist_bellman = Empty /\ todo = <<>> /\ all_paths = Empty

\* The first k nodes, in order: up to renaming, any list of k distinct sources.
FirstNodes(k) == [i \in 1..k |-> i]

InitDijkstra ==
    /\ InitGraph(NonNegWeights, 1)
    /\ func \in {"multi_source_dijkstra", "multi_source_dijkstra_path_length",
                 "dijkstra_predecessor_and_distance"}
    /\ \E k \in 1..MaxNodes :
         /\ k <= Cardinality(G_nodes)
         /\ func = "dijkstra_predecessor_and_distance" => k = 1
         /\ sources = FirstNodes(k)
    /\ target = None /\ cutoff = None /\ node_weight = None /\ heuristic = FALSE
    /\ hidden = {}
    /\ InitLocals

NextDijkstra ==
    \/ multi_source_dijkstra
    \/ multi_source_dijkstra_path_length
    \/ dijkstra_predecessor_and_distance
    \/ _dijkstra_multisource

SpecDijkstra == InitDijkstra /\ [][NextDijkstra]_vars

(***************************************************************************)
(* Reference semantics for the properties: shortest distances as the       *)
(* fixpoint of Bellman's equations on a graph adj; a node without a label  *)
(* is at distance +infinity.                                               *)
(***************************************************************************)
NodesOf(adj) == DOMAIN adj
Nbrs(adj, u) == {adj[u][i][1] : i \in 1..Len(adj[u])}
DataOf(adj, u, v) == adj[u][CHOOSE i \in 1..Len(adj[u]) : adj[u][i][1] = v][2]
MinOf(S) == CHOOSE x \in S : \A y \in S : x <= y

\* Cost of stepping u -> v: the edge weight, plus v's node weight nw[v] if any.
RefCost(adj, nw, u, v) ==
    weight(u, v, DataOf(adj, u, v)) + (IF nw = None THEN 0 ELSE The(nw)[v])

RefStep(adj, nw, D) ==
    LET into(v) == {u \in DOMAIN D : v \in Nbrs(adj, u)}
        cand(v) == (IF v \in DOMAIN D THEN {D[v]} ELSE {})
                   \cup {D[u] + RefCost(adj, nw, u, v) : u \in into(v)}
    IN  [v \in {x \in NodesOf(adj) : cand(x) # {}} |-> MinOf(cand(v))]

RECURSIVE RefIter(_, _, _, _)
RefIter(adj, nw, D, k) == IF k = 0 THEN D ELSE RefIter(adj, nw, RefStep(adj, nw, D), k - 1)

RefSeed(S, nw) == [s \in S |-> IF nw = None THEN 0 ELSE The(nw)[s]]

\* Labels after |V| - 1 rounds: the shortest distances when no negative cycle is reachable.
TrueDist(adj, nw, S) ==
    RefIter(adj, nw, RefSeed(S, nw), Cardinality(NodesOf(adj)))

\* A negative cycle is reachable from S iff one more round still lowers a label.
NegCycleReachable(adj, S) ==
    LET D == TrueDist(adj, None, S) IN RefStep(adj, None, D) # D

Reachable(adj, S) == DOMAIN TrueDist(adj, None, S)

\* The total weight of a node list along edges of adj; None if some pair is no edge.
RECURSIVE PathWeight(_, _, _)
PathWeight(adj, p, i) ==
    IF i >= Len(p) THEN Some(0)
    ELSE IF p[i + 1] \notin Nbrs(adj, p[i]) THEN None
    ELSE LET r == PathWeight(adj, p, i + 1)
         IN  IF r = None THEN None
             ELSE Some(weight(p[i], p[i + 1], DataOf(adj, p[i], p[i + 1])) + The(r))

SourceSet == Range(sources)

(***************************************************************************)
(* Properties of the Dijkstra facades                                      *)
(***************************************************************************)
\* C1: with non-negative weights, no cutoff, no target and no node_weight, the
\* distance map the multi-source core returns has exactly the nodes reachable
\* from some source as keys, each with the minimum total weight of a path
\* from a source.
C1_Optimality ==
    (pc = "done" /\ func \in {"multi_source_dijkstra_path_length", "multi_source_dijkstra"})
        => dist = TrueDist(G_succ, None, SourceSet)

\* C1 witness: a returned map holding a non-source node at a positive distance.
C1_Witness ==
    /\ pc = "done" /\ func = "multi_source_dijkstra_path_length"
    /\ \E v \in DOMAIN dist : v \notin SourceSet /\ dist[v] > 0

\* C8: multi_source_dijkstra without target returns (dist, paths) with equal
\* key sets; every paths[v] starts at a source, ends at v, follows edges of G
\* and weighs exactly dist[v].
C8_PathConsistency ==
    (pc = "done" /\ func = "multi_source_dijkstra" /\ target = None) =>
        LET dst == The(result)[1]
            pa == The(result)[2]
        IN  /\ DOMAIN dst = DOMAIN pa
            /\ \A v \in DOMAIN pa :
                 /\ Len(pa[v]) >= 1
                 /\ pa[v][1] \in SourceSet
                 /\ pa[v][Len(pa[v])] = v
                 /\ PathWeight(G_succ, pa[v], 1) = Some(dst[v])

\* C8 witness: a returned path of at least two edges.
C8_Witness ==
    /\ pc = "done" /\ func = "multi_source_dijkstra" /\ target = None
    /\ \E v \in DOMAIN paths : Len(paths[v]) >= 3

\* The co-optimal predecessors of v under the distance map dst.
CoOptimal(dst, v) ==
    {u \in DOMAIN dst : v \in Nbrs(G_succ, u)
                        /\ dst[u] + weight(u, v, DataOf(G_succ, u, v)) = dst[v]}

NoDuplicates(lst) == \A i, j \in 1..Len(lst) : lst[i] = lst[j] => i = j

\* C9: dijkstra_predecessor_and_distance returns pred whose list for every v in
\* dist holds exactly the nodes u in dist with an edge (u, v) and
\* dist[u] + w(u, v) = dist[v], each once.
C9_PredComplete ==
    (pc = "done" /\ func = "dijkstra_predecessor_and_distance") =>
        LET pr == The(result)[1]
            dst == The(result)[2]
        IN  \A v \in DOMAIN dst :
              /\ v \in DOMAIN pr
              /\ Range(pr[v]) = CoOptimal(dst, v)
              /\ NoDuplicates(pr[v])

\* C9 witness: a node returned with two co-optimal predecessors.
C9_Witness ==
    /\ pc = "done" /\ func = "dijkstra_predecessor_and_distance"
    /\ \E v \in DOMAIN pred : Len(pred[v]) >= 2

(***************************************************************************)
(* Dijkstra with a cutoff and node weights                                 *)
(***************************************************************************)
Cutoffs == {Some(k) : k \in (0 - 1)..(MaxWeight + 1)}
NodeWeights(ns) == {None} \cup {Some(f) : f \in [ns -> NonNegWeights]}

InitCutoff ==
    /\ InitGraph(NonNegWeights, 1)
    /\ func = "multi_source_dijkstra_path_length"
    /\ \E k \in 1..MaxNodes : k <= Cardinality(G_nodes) /\ sources = FirstNodes(k)
    /\ target = None /\ heuristic = FALSE
    /\ cutoff \in Cutoffs
    /\ node_weight \in NodeWeights(G_nodes)
    /\ hidden = {}
    /\ InitLocals

NextCutoff ==
    \/ multi_source_dijkstra_path_length
    \/ _dijkstra_multisource

SpecCutoff == InitCutoff /\ [][NextCutoff]_vars

\* C10: with cutoff C, every returned distance is <= C and every node whose
\* true distance from the sources is <= C is a key of the returned map.
C10_CutoffSound ==
    (pc = "done" /\ cutoff # None) =>
        LET td == TrueDist(G_succ, node_weight, SourceSet)
        IN  /\ \A v \in DOMAIN dist : dist[v] <= The(cutoff)
            /\ \A v \in DOMAIN td : td[v] <= The(cutoff) => v \in DOMAIN dist

(***************************************************************************)
(* _bellman_ford and bellman_ford_predecessor_and_distance                 *)
(***************************************************************************)
BellmanFordState == [dist |-> dist, pred |-> pred, q |-> q, in_q |-> in_q, count |-> count,
                     pred_edge |-> pred_edge, recent_update |-> recent_update,
                     skipped |-> skipped, err |-> NoErr]

\* any(weight(u, v, d) < 0 for u, v, d in nx.selfloop_edges(G, data=True))
NegativeSelfLoop ==
    \E u \in G_nodes : \E i \in 1..Len(G_succ[u]) :
        G_succ[u][i][1] = u /\ weight(u, u, G_succ[u][i][2]) < 0

\* The heuristic flag _bellman_ford receives: the default True, unless the
\* caller is bellman_ford_predecessor_and_distance, which passes its own.
Heuristic ==
    IF func \in {"bellman_ford_predecessor_and_distance", "negative_edge_cycle"}
    THEN heuristic ELSE TRUE

\* Mutant of Lowers: only a node without a distance is updated.
Lowers_OnlyUnlabelled(dst, v, dist_v) == v \notin DOMAIN dst

\* dist_v < dist.get(v, inf)
Lowers(dst, v, dist_v) == v \notin DOMAIN dst \/ dist_v < dst[v]

\* Mutant of HeuristicCycle: any recorded update of u counts as a cycle.
HeuristicCycle_AnyUpdate(ru, u, v) == ru[u] # <<>>

\* if v in recent_update[u]: raise
HeuristicCycle(ru, u, v) == v \in Range(ru[u])

\* the heuristic's bookkeeping for the update of v through u
HeuristicUpdate(pe, ru, u, v) ==
    IF v \in DOMAIN pe /\ pe[v] = Some(u) THEN Put(ru, v, ru[u]) ELSE Put(ru, v, <<u, v>>)

\* count_v == n
CountLimit(count_v) == count_v = Cardinality(G_nodes)

\* Mutant of NoPredQueued: only a node without predecessors is relaxed.
NoPredQueued_NoPred(pr, inq, u) == pr[u] = <<>>

\* all(pred_u not in in_q for pred_u in pred[u])
NoPredQueued(pr, inq, u) == \A i \in 1..Len(pr[u]) : pr[u][i] \notin inq

\* Mutant of Ties: an equal distance is never recorded.
Ties_Never(dst, v, dist_v) == FALSE

\* elif dist.get(v) is not None and dist_v == dist.get(v)
Ties(dst, v, dist_v) == v \in DOMAIN dst /\ dist_v = dst[v]

\* for v, e in G_succ[u].items(): the body at item i, then the rest.
RECURSIVE BellmanFordRelax(_, _, _, _)
BellmanFordRelax(u, dist_u, i, st) ==
    IF i > Len(G_succ[u]) \/ st.err # NoErr THEN st
    ELSE LET v == G_succ[u][i][1]
             e == G_succ[u][i][2]
             dist_v == dist_u + Weight(u, v, e)
         IN  IF Lowers(st.dist, v, dist_v)
             THEN IF Heuristic /\ HeuristicCycle(st.recent_update, u, v)
                  THEN [st EXCEPT !.err = "Unbounded"]
                  ELSE LET ru == IF Heuristic
                                 THEN HeuristicUpdate(st.pred_edge, st.recent_update, u, v)
                                 ELSE st.recent_update
                           enq == v \notin st.in_q
                           count_v == Get(st.count, v, 0) + 1
                       IN  IF enq /\ CountLimit(count_v)
                           THEN [st EXCEPT !.err = "Unbounded", !.recent_update = ru,
                                           !.q = Append(@, v), !.in_q = @ \cup {v}]
                           ELSE BellmanFordRelax(u, dist_u, i + 1,
                                  [st EXCEPT !.recent_update = ru,
                                             !.q = IF enq THEN Append(@, v) ELSE @,
                                             !.in_q = @ \cup {v},
                                             !.count = IF enq THEN Put(@, v, count_v) ELSE @,
                                             !.dist = Put(@, v, dist_v),
                                             !.pred = Put(@, v, <<u>>),
                                             !.pred_edge = Put(@, v, Some(u))])
             ELSE IF Ties(st.dist, v, dist_v)
             THEN BellmanFordRelax(u, dist_u, i + 1, [st EXCEPT !.pred[v] = Append(@, u)])
             ELSE BellmanFordRelax(u, dist_u, i + 1, st)

\* One iteration of `while q:`.
BellmanFordIteration ==
    LET u == Head(q)
        st == [BellmanFordState EXCEPT !.q = Tail(q), !.in_q = in_q \ {u}]
    IN  IF NoPredQueued(pred, st.in_q, u)
        THEN BellmanFordRelax(u, dist[u], 1, st)
        ELSE [st EXCEPT !.skipped = TRUE]

\* paths is not None: single_source_bellman_ford, also under bellman_ford_path.
BellmanFordPathsRequested == func \in {"single_source_bellman_ford", "bellman_ford_path"}

\* _build_paths_from_predecessors up to its first yield: the depth-first walk
\* from the target along pred; stack holds the live entries <<node, i>>.
\* None if the generator ends without a path.
RECURSIVE BuildPath(_, _, _, _)
BuildPath(stack, visited, S, pr) ==
    IF stack = <<>> THEN None
    ELSE LET top == Len(stack)
             node == stack[top][1]
             i == stack[top][2]
         IN  IF node \in S
             THEN Some(Reverse([k \in 1..top |-> stack[k][1]]))
             ELSE IF Len(pr[node]) > i
             THEN LET nxt == pr[node][i + 1]
                      stk == [stack EXCEPT ![top] = <<node, i + 1>>]
                  IN  IF nxt \in visited
                      THEN BuildPath(stk, visited, S, pr)
                      ELSE BuildPath(Append(stk, <<nxt, 0>>), visited \cup {nxt}, S, pr)
             ELSE BuildPath(SubSeq(stack, 1, top - 1), visited \ {node}, S, pr)

\* if paths is not None: for dst in dsts: paths[dst] = next(gen)
BellmanFordPaths(pa, pr) ==
    IF ~BellmanFordPathsRequested THEN [paths |-> pa, err |-> NoErr]
    ELSE LET dsts == IF target # None THEN target ELSE DOMAIN pr
             path(dst) == BuildPath(<<<<dst, 0>>>>, {dst}, Range(sources), pr)
         IN  IF \E dst \in dsts : dst \notin DOMAIN pr
             THEN [paths |-> pa, err |-> "NoPath"]
             ELSE IF \E dst \in dsts : path(dst) = None
             THEN [paths |-> pa, err |-> "StopIteration"]
             ELSE [paths |-> [x \in DOMAIN pa \cup dsts |->
                                IF x \in dsts THEN The(path(x)) ELSE pa[x]],
                   err |-> NoErr]

\* What the facade returns once the core has returned dist.
BellmanFordReturn(dst, pa, pr) ==
    CASE func \in {"bellman_ford_predecessor_and_distance", "negative_edge_cycle"} ->
            [val |-> Some(<<pr, dst>>), err |-> NoErr]
      [] func \in {"single_source_bellman_ford", "bellman_ford_path"} ->
            IF target = None THEN [val |-> Some(<<dst, pa>>), err |-> NoErr]
            ELSE IF The(target) \in DOMAIN dst /\ The(target) \in DOMAIN pa
                 THEN [val |-> Some(Project(<<dst[The(target)], pa[The(target)]>>)),
                       err |-> NoErr]
                 ELSE [val |-> None, err |-> "NoPath"]
      [] func = "bellman_ford_path_length" ->
            IF The(target) \in DOMAIN dst
            THEN [val |-> Some(dst[The(target)]), err |-> NoErr]
            ELSE [val |-> None, err |-> "NoPath"]
      [] OTHER -> [val |-> Some(dst), err |-> NoErr]

SetBellmanFord(st) ==
    /\ dist' = st.dist /\ pred' = st.pred /\ q' = st.q /\ in_q' = st.in_q
    /\ count' = st.count /\ pred_edge' = st.pred_edge /\ recent_update' = st.recent_update
    /\ skipped' = st.skipped

\* Where an exception or a return value of the Bellman-Ford call goes: to the
\* caller of the public function, or to the try statement of
\* negative_edge_cycle, or back into johnson.
BellmanFordRaise(e) ==
    IF func = "negative_edge_cycle"
    THEN pc' = "finally" /\ err' = e /\ result' = None
    ELSE Raise(e)

BellmanFordReturns(val) ==
    CASE func = "negative_edge_cycle" -> pc' = "finally" /\ err' = NoErr /\ result' = None
      [] func = "johnson" -> pc' = "johnson" /\ err' = NoErr /\ result' = None
      [] OTHER -> pc' = "done" /\ err' = NoErr /\ result' = val

\* The control state after the core's state st: raised, looping, or, once the
\* queue is empty, the paths are built and the facade returns.
BellmanFordFinish(st) ==
    IF st.err # NoErr
    THEN BellmanFordRaise(st.err) /\ paths' = paths
    ELSE IF st.q = <<>>
    THEN LET bp == BellmanFordPaths(paths, st.pred)
             r == BellmanFordReturn(st.dist, bp.paths, st.pred)
         IN  /\ paths' = bp.paths
             /\ IF bp.err # NoErr THEN BellmanFordRaise(bp.err)
                ELSE IF r.err # NoErr THEN BellmanFordRaise(r.err)
                ELSE BellmanFordReturns(r.val)
    ELSE /\ pc' = "bellman_ford" /\ err' = NoErr /\ result' = None /\ paths' = paths

bfUnchanged == <<seen, fringe, c, grVars, biVars, johnVars>>

_bellman_ford ==
    /\ pc = "bellman_ford"
    /\ q # <<>>
    /\ LET st == BellmanFordIteration
       IN  SetBellmanFord(st) /\ BellmanFordFinish(st)
    /\ UNCHANGED <<graphVars, argVars, bfUnchanged>>

\* _bellman_ford up to its loop: source check and storage setup.
BellmanFordEnter(src, dst, pr, pa) ==
    IF \E i \in 1..Len(src) : src[i] \notin G_nodes
    THEN BellmanFordRaise("NodeNotFound") /\ UNCHANGED <<dist, pred, bfVars>> /\ paths' = pa
    ELSE /\ SetBellmanFord([dist |-> dst, pred |-> pr, q |-> src, in_q |-> Range(src),
                            count |-> Empty,
                            pred_edge |-> [v \in Range(src) |-> None],
                            recent_update |-> [v \in Range(src) |-> <<>>],
                            skipped |-> FALSE])
         /\ pc' = "bellman_ford" /\ err' = NoErr /\ result' = None /\ paths' = pa

\* Called by the user, or by negative_edge_cycle inside its try statement.
bellman_ford_predecessor_and_distance ==
    /\ \/ pc = "call" /\ func = "bellman_ford_predecessor_and_distance"
       \/ pc = "try" /\ func = "negative_edge_cycle"
    /\ LET source == sources[1]
           dist0 == [v \in {source} |-> 0]
           pred0 == [v \in {source} |-> <<>>]
       IN  IF source \notin G_nodes
           THEN BellmanFordRaise("NodeNotFound") /\ UNCHANGED <<dist, pred, paths, bfVars>>
           ELSE IF NegativeSelfLoop
           THEN BellmanFordRaise("Unbounded") /\ UNCHANGED <<dist, pred, paths, bfVars>>
           ELSE IF Cardinality(G_nodes) = 1
           THEN /\ BellmanFordReturns(Some(<<pred0, dist0>>))
                /\ dist' = dist0 /\ pred' = pred0
                /\ UNCHANGED <<paths, bfVars>>
           ELSE BellmanFordEnter(<<source>>, dist0, pred0, paths)
    /\ UNCHANGED <<graphVars, argVars, bfUnchanged>>

\* _bellman_ford(G, [source], weight): the pred and dist it builds for itself.
BellmanFordCall(pa) ==
    BellmanFordEnter(<<sources[1]>>, [v \in {sources[1]} |-> 0],
                     [v \in {sources[1]} |-> <<>>], pa)

single_source_bellman_ford_path_length ==
    /\ pc = "call"
    /\ func = "single_source_bellman_ford_path_length"
    /\ BellmanFordCall(paths)
    /\ UNCHANGED <<graphVars, argVars, bfUnchanged>>

bellman_ford_path_length ==
    /\ pc = "call"
    /\ func = "bellman_ford_path_length"
    /\ IF Some(sources[1]) = target
       THEN Return(0) /\ UNCHANGED <<dist, pred, paths, bfVars>>
       ELSE BellmanFordCall(paths)
    /\ UNCHANGED <<graphVars, argVars, bfUnchanged>>

\* The body of single_source_bellman_ford, which bellman_ford_path calls.
SingleSourceBellmanFordBody ==
    IF Some(sources[1]) = target
    THEN Return(Project(<<0, <<sources[1]>>>>)) /\ UNCHANGED <<dist, pred, paths, bfVars>>
    ELSE BellmanFordCall([v \in {sources[1]} |-> <<v>>])

single_source_bellman_ford ==
    /\ pc = "call"
    /\ func = "single_source_bellman_ford"
    /\ SingleSourceBellmanFordBody
    /\ UNCHANGED <<graphVars, argVars, bfUnchanged>>

\* length, path = single_source_bellman_ford(G, source, target=target, ...); return path
bellman_ford_path ==
    /\ pc = "call"
    /\ func = "bellman_ford_path"
    /\ SingleSourceBellmanFordBody
    /\ UNCHANGED <<graphVars, argVars, bfUnchanged>>

InitBellmanFord ==
    /\ InitGraph(AnyWeights, 1)
    /\ func = "bellman_ford_predecessor_and_distance"
    /\ sources = <<1>>
    /\ heuristic \in BOOLEAN
    /\ target = None /\ cutoff = None /\ node_weight = None
    /\ hidden = {}
    /\ InitLocals

NextBellmanFord ==
    \/ bellman_ford_predecessor_and_distance
    \/ _bellman_ford

SpecBellmanFord == InitBellmanFord /\ [][NextBellmanFord]_vars

Terminated == pc \in {"done", "raised"}

\* C2: bellman_ford_predecessor_and_distance raises Unbounded exactly when a
\* negative-weight cycle is reachable from the source; a negative cycle or
\* negative self-loop out of the source's reach does not make it raise.
C2_UnboundedIffReachable ==
    (Terminated /\ func = "bellman_ford_predecessor_and_distance") =>
        ((err = "Unbounded") <=> NegCycleReachable(G_succ, SourceSet))

(***************************************************************************)
(* goldberg_radzik.  d holds the finite labels; a node without a label is  *)
(* at float("inf").  pred[v] is None or Some(u).                           *)
(***************************************************************************)
\* t < d[v] and t <= d[v], with d[v] = inf for an unlabelled v
LessThanLabel(dd, t, v) == v \notin DOMAIN dd \/ t < dd[v]
AtMostLabel(dd, t, v) == v \notin DOMAIN dd \/ t <= dd[v]

\* Mutant of NoNegativeOutEdge: only the first out-edge is tested.
NoNegativeOutEdge_FirstOnly(dd, u) ==
    \A i \in 1..Len(G_succ[u]) : i = 1 =>
        ~LessThanLabel(dd, dd[u] + Weight(u, G_succ[u][i][1], G_succ[u][i][2]), G_succ[u][i][1])

\* all(d_u + weight(u, v, e) >= d[v] for v, e in G_succ[u].items())
NoNegativeOutEdge(dd, u) ==
    \A i \in 1..Len(G_succ[u]) :
        ~LessThanLabel(dd, dd[u] + Weight(u, G_succ[u][i][1], G_succ[u][i][2]), G_succ[u][i][1])

\* the back-edge test of topo_sort
BackEdgeNegative(neg_count, in_stack, u, v, is_neg) ==
    v \in in_stack /\ neg_count[u] + is_neg > neg_count[v]

\* The nonrecursive DFS: stack holds <<node, position of its iterator>>.
RECURSIVE TopoDFS(_, _, _)
TopoDFS(stack, in_stack, st) ==
    IF stack = <<>> \/ st.err # NoErr THEN st
    ELSE LET top == stack[Len(stack)]
             u == top[1]
             i == top[2]
         IN  IF i > Len(G_succ[u])
             THEN TopoDFS(SubSeq(stack, 1, Len(stack) - 1), in_stack \ {u},
                          [st EXCEPT !.to_scan = Append(@, u)])
             ELSE LET v == G_succ[u][i][1]
                      e == G_succ[u][i][2]
                      t == st.d[u] + Weight(u, v, e)
                      stk == [stack EXCEPT ![Len(stack)] = <<u, i + 1>>]
                  IN  IF AtMostLabel(st.d, t, v)
                      THEN LET is_neg == IF LessThanLabel(st.d, t, v) THEN 1 ELSE 0
                               st1 == [st EXCEPT !.d = Put(@, v, t), !.pred = Put(@, v, Some(u))]
                           IN  IF v \notin DOMAIN st.neg_count
                               THEN TopoDFS(Append(stk, <<v, 1>>), in_stack \cup {v},
                                      [st1 EXCEPT !.neg_count = Put(@, v, st.neg_count[u] + is_neg)])
                               ELSE IF BackEdgeNegative(st.neg_count, in_stack, u, v, is_neg)
                               THEN [st1 EXCEPT !.err = "Unbounded"]
                               ELSE TopoDFS(stk, in_stack, st1)
                      ELSE TopoDFS(stk, in_stack, st)

\* for u in relabeled: the body at position k, then the rest.
RECURSIVE TopoRoots(_, _)
TopoRoots(k, st) ==
    IF k > Len(relabeled) \/ st.err # NoErr THEN st
    ELSE LET u == relabeled[k]
         IN  IF u \in DOMAIN st.neg_count THEN TopoRoots(k + 1, st)
             ELSE IF NoNegativeOutEdge(st.d, u) THEN TopoRoots(k + 1, st)
             ELSE TopoRoots(k + 1,
                    TopoDFS(<<<<u, 1>>>>, {u}, [st EXCEPT !.neg_count = Put(@, u, 0)]))

\* for v, e in G_succ[u].items() inside relax
RECURSIVE RelaxEdges(_, _, _, _)
RelaxEdges(u, d_u, i, st) ==
    IF i > Len(G_succ[u]) THEN st
    ELSE LET v == G_succ[u][i][1]
             w_e == Weight(u, v, G_succ[u][i][2])
         IN  IF LessThanLabel(st.d, d_u + w_e, v)
             THEN RelaxEdges(u, d_u, i + 1,
                    [st EXCEPT !.d = Put(@, v, d_u + w_e), !.pred = Put(@, v, Some(u)),
                               !.relabeled = @ \cup {v}])
             ELSE RelaxEdges(u, d_u, i + 1, st)

\* for u in to_scan inside relax
RECURSIVE RelaxScan(_, _)
RelaxScan(k, st) ==
    IF k > Len(to_scan) THEN st
    ELSE RelaxScan(k + 1, RelaxEdges(to_scan[k], st.d[to_scan[k]], 1, st))

\* Mutant of WhileRelabeled: the loop condition is always true.
WhileRelabeled_Always(r) == TRUE

\* while relabeled:
WhileRelabeled(r) == r # {}

\* The orders in which a Python set can be iterated.
Orders(S) == {o \in [1..Cardinality(S) -> S] : \A i, j \in 1..Cardinality(S) : o[i] = o[j] => i = j}

grUnchanged == <<dist, seen, fringe, c, paths, bfVars, biVars, johnVars>>

topo_sort ==
    /\ pc = "topo_sort"
    /\ LET st == TopoRoots(1, [d |-> d, pred |-> pred, neg_count |-> Empty,
                               to_scan |-> <<>>, err |-> NoErr])
       IN  /\ d' = st.d /\ pred' = st.pred
           /\ to_scan' = Reverse(st.to_scan)
           /\ IF st.err # NoErr
              THEN Raise(st.err)
              ELSE pc' = "relax" /\ err' = NoErr /\ result' = None
    /\ UNCHANGED <<graphVars, argVars, grUnchanged, relabeled>>

relax ==
    /\ pc = "relax"
    /\ LET st == RelaxScan(1, [d |-> d, pred |-> pred, relabeled |-> {}])
       IN  /\ pred' = st.pred
           /\ relabeled' \in Orders(st.relabeled)
           /\ IF ~WhileRelabeled(st.relabeled)
              THEN /\ d' = [u \in DOMAIN st.pred |-> st.d[u]]
                   /\ Return(<<st.pred, [u \in DOMAIN st.pred |-> st.d[u]]>>)
              ELSE /\ d' = st.d
                   /\ pc' = "topo_sort" /\ err' = NoErr /\ result' = None
    /\ UNCHANGED <<graphVars, argVars, grUnchanged, to_scan>>

goldberg_radzik ==
    /\ pc = "call"
    /\ func = "goldberg_radzik"
    /\ LET source == sources[1]
       IN  IF source \notin G_nodes
           THEN Raise("NodeNotFound") /\ UNCHANGED <<d, pred, relabeled>>
           ELSE IF NegativeSelfLoop
           THEN Raise("Unbounded") /\ UNCHANGED <<d, pred, relabeled>>
           ELSE IF Cardinality(G_nodes) = 1
           THEN /\ Return(<<[v \in {source} |-> None], [v \in {source} |-> 0]>>)
                /\ UNCHANGED <<d, pred, relabeled>>
           ELSE /\ d' = [v \in {source} |-> 0]
                /\ pred' = [v \in {source} |-> None]
                /\ relabeled' = <<source>>
                /\ pc' = "topo_sort" /\ err' = NoErr /\ result' = None
    /\ UNCHANGED <<graphVars, argVars, grUnchanged, to_scan>>

InitGoldbergRadzik ==
    /\ InitGraph(AnyWeights, 1)
    /\ func = "goldberg_radzik"
    /\ sources = <<1>>
    /\ heuristic = FALSE /\ target = None /\ cutoff = None /\ node_weight = None
    /\ hidden = {}
    /\ InitLocals

NextGoldbergRadzik ==
    \/ goldberg_radzik
    \/ topo_sort
    \/ relax

SpecGoldbergRadzik == InitGoldbergRadzik /\ [][NextGoldbergRadzik]_vars

\* C3: goldberg_radzik raises Unbounded exactly when a negative-weight cycle
\* is reachable from the source; it returns normally when every reachable
\* cycle has total weight >= 0, a cycle of total weight 0 included.
C3_UnboundedIffReachable ==
    (Terminated /\ func = "goldberg_radzik") =>
        ((err = "Unbounded") <=> NegCycleReachable(G_succ, SourceSet))

(***************************************************************************)
(* bidirectional_dijkstra.  dists, paths, fringe and seen are the pairs    *)
(* [forward, backward]; Python's index dir is position dir + 1 here.       *)
(***************************************************************************)
\* Mutant of Neighs: the backward search also walks the successors.
Neighs_ForwardOnly(dr) == G_succ

\* neighs[dir]
Neighs(dr) == IF dr = 0 THEN G_succ ELSE G_pred

\* weight(v, w, d) forward, weight(w, v, d) backward
DirWeight(dr, v, w, e) == IF dr = 0 THEN Weight(v, w, e) ELSE Weight(w, v, e)

\* dists[dir][v] + None
DirHidden(dr, v, w) == IF dr = 0 THEN Hidden(v, w) ELSE Hidden(w, v)

\* Mutant of BetterTotal: a first total is never recorded.
BetterTotal_OnlyBetter(fd, fp, totaldist) == fd # None /\ The(fd) > totaldist

\* finalpath == [] or finaldist > totaldist
BetterTotal(fd, fp, totaldist) == fp = <<>> \/ The(fd) > totaldist

\* Mutant of JoinPaths: the meeting node is not dropped from the reversed half.
JoinPaths_KeepMeet(pa, w) == pa[1][w] \o Reverse(pa[2][w])

\* paths[0][w] + reversed(paths[1][w])[1:]
JoinPaths(pa, w) == pa[1][w] \o Tail(Reverse(pa[2][w]))

BidirState == [dists |-> dists, paths |-> paths, fringe |-> fringe, seen |-> seen, c |-> c,
               finaldist |-> finaldist, finalpath |-> finalpath, err |-> NoErr]

\* for w, d in neighs[dir][v].items(): the body at item i, then the rest.
RECURSIVE BidirRelax(_, _, _, _)
BidirRelax(dr, v, i, st) ==
    IF i > Len(Neighs(dr)[v]) \/ st.err # NoErr THEN st
    ELSE LET w == Neighs(dr)[v][i][1]
             e == Neighs(dr)[v][i][2]
             k == dr + 1
             vwLength == st.dists[k][v] + DirWeight(dr, v, w, e)
         IN  IF DirHidden(dr, v, w) THEN [st EXCEPT !.err = "TypeError"]
             ELSE IF w \in DOMAIN st.dists[k]
             THEN IF vwLength < st.dists[k][w]
                  THEN [st EXCEPT !.err = "Contradictory"]
                  ELSE BidirRelax(dr, v, i + 1, st)
             ELSE IF Improves(st.seen[k], w, vwLength)
             THEN LET sn == [st.seen EXCEPT ![k] = Put(@, w, vwLength)]
                      pa == [st.paths EXCEPT ![k] = Put(@, w, Append(st.paths[k][v], w))]
                      st1 == [st EXCEPT !.seen = sn, !.paths = pa, !.c = @ + 1,
                                        !.fringe[k] = @ \cup {<<vwLength, st.c, w>>}]
                      totaldist == sn[1][w] + sn[2][w]
                  IN  IF w \in DOMAIN sn[1] /\ w \in DOMAIN sn[2]
                         /\ BetterTotal(st.finaldist, st.finalpath, totaldist)
                      THEN BidirRelax(dr, v, i + 1,
                             [st1 EXCEPT !.finaldist = Some(totaldist),
                                         !.finalpath = JoinPaths(pa, w)])
                      ELSE BidirRelax(dr, v, i + 1, st1)
             ELSE BidirRelax(dr, v, i + 1, st)

\* One iteration of `while fringe[0] and fringe[1]:`; ret tells that the
\* meeting condition fired.
BidirIteration ==
    LET dr == 1 - dir
        k == dr + 1
        t == PopMin(fringe[k])
        v == t[3]
        st == [BidirState EXCEPT !.fringe[k] = @ \ {t}]
    IN  IF v \in DOMAIN dists[k]
        THEN st @@ [ret |-> FALSE]
        ELSE LET st1 == [st EXCEPT !.dists[k] = Put(@, v, t[1])]
             IN  IF v \in DOMAIN dists[3 - k]
                 THEN st1 @@ [ret |-> TRUE]
                 ELSE BidirRelax(dr, v, 1, st1) @@ [ret |-> FALSE]

SetBidir(st) ==
    /\ dists' = st.dists /\ paths' = st.paths /\ fringe' = st.fringe /\ seen' = st.seen
    /\ c' = st.c /\ finaldist' = st.finaldist /\ finalpath' = st.finalpath

biUnchanged == <<dist, pred, bfVars, grVars, johnVars>>

bidirectional_dijkstra_loop ==
    /\ pc = "bidirectional"
    /\ fringe[1] # {} /\ fringe[2] # {}
    /\ dir' = 1 - dir
    /\ LET st == BidirIteration
       IN  /\ SetBidir(st)
           /\ IF st.err # NoErr THEN Raise(st.err)
              ELSE IF st.ret
              THEN IF st.finaldist = None
                   THEN Raise("UnboundLocalError")
                   ELSE Return(<<The(st.finaldist), st.finalpath>>)
              ELSE IF st.fringe[1] = {} \/ st.fringe[2] = {}
              THEN Raise("NoPath")
              ELSE pc' = "bidirectional" /\ err' = NoErr /\ result' = None
    /\ UNCHANGED <<graphVars, argVars, biUnchanged>>

bidirectional_dijkstra ==
    /\ pc = "call"
    /\ func = "bidirectional_dijkstra"
    /\ LET source == sources[1]
           tgt == The(target)
       IN  IF source \notin G_nodes \/ tgt \notin G_nodes
           THEN Raise("NodeNotFound") /\ UNCHANGED <<dists, paths, fringe, seen, c>>
           ELSE IF source = tgt
           THEN Return(<<0, <<source>>>>) /\ UNCHANGED <<dists, paths, fringe, seen, c>>
           ELSE /\ dists' = <<Empty, Empty>>
                /\ paths' = <<[x \in {source} |-> <<source>>], [x \in {tgt} |-> <<tgt>>]>>
                /\ seen' = <<[x \in {source} |-> 0], [x \in {tgt} |-> 0]>>
                /\ fringe' = <<{<<0, 0, source>>}, {<<0, 1, tgt>>}>>
                /\ c' = 2
                /\ pc' = "bidirectional" /\ err' = NoErr /\ result' = None
    /\ UNCHANGED <<graphVars, argVars, biUnchanged, finaldist, finalpath, dir>>

InitBidirectional ==
    /\ InitGraph(NonNegWeights, 1)
    /\ func = "bidirectional_dijkstra"
    /\ sources = <<1>>
    /\ target \in {Some(t) : t \in G_nodes \cap {1, 2}}
    /\ heuristic = FALSE /\ cutoff = None /\ node_weight = None
    /\ hidden = {}
    /\ InitLocals

NextBidirectional ==
    \/ bidirectional_dijkstra
    \/ bidirectional_dijkstra_loop

SpecBidirectional == InitBidirectional /\ [][NextBidirectional]_vars

IsWeighted ==
    /\ \E u \in G_nodes : G_succ[u] # <<>>
    /\ \A u \in G_nodes : \A i \in 1..Len(G_succ[u]) : G_succ[u][i][2] # NoData

\* list(G)
NodeList == [i \in 1..Cardinality(G_nodes) |-> i]

johnson ==
    /\ pc = "call"
    /\ func = "johnson"
    /\ IF ~IsWeighted
       THEN Raise("NetworkXError") /\ UNCHANGED <<dist, pred, paths, bfVars>>
       ELSE BellmanFordEnter(NodeList, [v \in G_nodes |-> 0], [v \in G_nodes |-> <<>>], paths)
    /\ UNCHANGED <<graphVars, argVars, bfUnchanged>>

\* dist_path(v) up to the loop of the Dijkstra run it starts, for the next v of
\* `for v in G`; dist_bellman is bound when the Bellman-Ford call has returned.
dist_path ==
    /\ pc = "johnson"
    /\ LET v == IF todo = <<>> THEN NodeList[1] ELSE Head(todo)
       IN  /\ sources' = <<v>>
           /\ todo' = IF todo = <<>> THEN NodeList ELSE todo
           /\ dist_bellman' = IF todo = <<>> THEN dist ELSE dist_bellman
           /\ LET st == [dist |-> Empty, seen |-> [x \in {v} |-> 0],
                         fringe |-> {<<0, 0, v>>}, c |-> 1,
                         paths |-> [x \in {v} |-> <<v>>], pred |-> pred, err |-> NoErr]
              IN  SetDijkstra(st) /\ DijkstraFinish(st, FALSE)
    /\ UNCHANGED <<graphVars, func, target, cutoff, node_weight, hidden, heuristic,
                   bfVars, grVars, biVars, all_paths>>

\* dist_path(v) returns paths; the comprehension stores it and goes on.
dist_path_return ==
    /\ pc = "dist_path_return"
    /\ all_paths' = Put(all_paths, Head(todo), paths)
    /\ todo' = Tail(todo)
    /\ IF Tail(todo) = <<>>
       THEN Return(Put(all_paths, Head(todo), paths))
       ELSE pc' = "johnson" /\ err' = NoErr /\ result' = None
    /\ UNCHANGED <<graphVars, argVars, dijkVars, bfVars, grVars, biVars, dist_bellman>>

InitJohnson ==
    /\ InitGraph(AnyWeights, 1)
    /\ directed
    /\ func = "johnson"
    /\ sources = <<>>
    /\ heuristic = TRUE
    /\ target = None /\ cutoff = None /\ node_weight = None
    /\ hidden = {}
    /\ InitLocals

NextJohnson ==
    \/ johnson
    \/ _bellman_ford
    \/ dist_path
    \/ _dijkstra_multisource
    \/ dist_path_return

SpecJohnson == InitJohnson /\ [][NextJohnson]_vars

PotentialBound == func = "johnson" /\ DOMAIN dist_bellman = G_nodes /\ G_nodes # {}

\* C15: in johnson on a graph without a negative cycle, the potential h left by
\* the Bellman-Ford phase has h[v] <= 0 for every node v, the reweighted cost
\* w(u,v) + h[u] - h[v] is >= 0 on every edge of G, and no Dijkstra run raises
\* the Contradictory error.
C15_ReweightedNonNegative ==
    (func = "johnson" /\ ~NegCycleReachable(G_succ, G_nodes)) =>
        /\ err # "Contradictory"
        /\ PotentialBound =>
             /\ \A v \in G_nodes : dist_bellman[v] <= 0
             /\ \A u \in G_nodes : \A i \in 1..Len(G_succ[u]) :
                  new_weight(u, G_succ[u][i][1], G_succ[u][i][2]) >= 0

\* C15 witness: johnson has returned and some potential is negative.
C15_Witness ==
    /\ pc = "done" /\ PotentialBound
    /\ \E v \in G_nodes : dist_bellman[v] < 0

\* C16 as stated: dist_Johnson(u,v) + h[u] - h[v] = dist_original(u,v) for
\* every v reachable from u, when the Dijkstra run from u has returned.
C16_JohnsonRelationStated ==
    (pc = "dist_path_return" /\ PotentialBound) =>
        LET u == sources[1]
            td == TrueDist(G_succ, None, {u})
        IN  \A v \in DOMAIN td :
              v \in DOMAIN dist /\ dist[v] + dist_bellman[u] - dist_bellman[v] = td[v]

\* C16 amended: dist_Johnson(u,v) - h[u] + h[v] = dist_original(u,v) for every
\* v reachable from u, when the Dijkstra run from u has returned.
C16_JohnsonRelation ==
    (pc = "dist_path_return" /\ PotentialBound) =>
        LET u == sources[1]
            td == TrueDist(G_succ, None, {u})
        IN  \A v \in DOMAIN td :
              v \in DOMAIN dist /\ dist[v] - dist_bellman[u] + dist_bellman[v] = td[v]

\* C16 witness: a Dijkstra run has returned a node whose potential differs
\* from that of its source.
C16_Witness ==
    /\ pc = "dist_path_return" /\ PotentialBound
    /\ \E v \in DOMAIN dist : dist_bellman[v] # dist_bellman[sources[1]]

newnode == 0

\* G.add_edges_from([(newnode, n) for n in G]): the edges carry no attributes.
RECURSIVE AddSentinelEdges(_, _, _)
AddSentinelEdges(g, ns, i) ==
    IF i > Len(ns) THEN g
    ELSE AddSentinelEdges(AddEdge(AddNode(g, newnode), directed, newnode, ns[i], NoData),
                          ns, i + 1)

\* Mutant of GraphAfterTry: the removal is skipped when Unbounded was caught
\* (a plain statement after the try block instead of a finally clause).
GraphAfterTry_NoFinally(g, e) == IF e = "Unbounded" THEN g ELSE RemoveNode(g, newnode)

\* finally: G.remove_node(newnode), whatever the try block did
GraphAfterTry(g, e) == RemoveNode(g, newnode)

necUnchanged == <<func, target, cutoff, node_weight, hidden, heuristic, dijkVars, bfVars, grVars,
                  biVars, johnVars, directed, G_before, prev_result>>

negative_edge_cycle ==
    /\ pc = "call"
    /\ func = "negative_edge_cycle"
    /\ LET g == AddSentinelEdges(<<G_succ, G_pred>>, NodeList, 1)
       IN  /\ G_succ' = g[1]
           /\ G_pred' = g[2]
           /\ G_nodes' = DOMAIN g[1]
    /\ sources' = <<newnode>>
    /\ pc' = "try" /\ err' = NoErr /\ result' = None
    /\ UNCHANGED necUnchanged

\* The except and finally clauses, and the return that follows them.
negative_edge_cycle_finally ==
    /\ pc = "finally"
    /\ func = "negative_edge_cycle"
    /\ IF newnode \notin G_nodes
       THEN Raise("NetworkXError") /\ UNCHANGED <<G_succ, G_pred, G_nodes>>
       ELSE /\ LET g == GraphAfterTry(<<G_succ, G_pred>>, err)
               IN  /\ G_succ' = g[1]
                   /\ G_pred' = g[2]
                   /\ G_nodes' = DOMAIN g[1]
            /\ IF err = "Unbounded" THEN Return(TRUE)
               ELSE IF err # NoErr THEN Raise(err)
               ELSE Return(FALSE)
    /\ UNCHANGED <<sources, necUnchanged>>

InitNegativeEdgeCycle ==
    /\ InitGraph(AnyWeights, 0)
    /\ func = "negative_edge_cycle"
    /\ sources = <<>>
    /\ heuristic \in BOOLEAN
    /\ target = None /\ cutoff = None /\ node_weight = None
    /\ hidden = {}
    /\ InitLocals

NextNegativeEdgeCycle ==
    \/ negative_edge_cycle
    \/ bellman_ford_predecessor_and_distance
    \/ _bellman_ford
    \/ negative_edge_cycle_finally

SpecNegativeEdgeCycle == InitNegativeEdgeCycle /\ [][NextNegativeEdgeCycle]_vars

\* C6: negative_edge_cycle(G) returns true if and only if G has a
\* negative-weight cycle in any component, for every graph, the empty graph
\* included, and for both values of the heuristic flag.
C6_NegativeCycleIff ==
    (Terminated /\ func = "negative_edge_cycle") =>
        /\ pc = "done"
        /\ result = Some(NegCycleReachable(G_before[2], G_before[1]))

\* C7: when negative_edge_cycle has exited, by return or by exception, the
\* nodes and edges of G are what they were before the call.
C7_GraphRestored ==
    (Terminated /\ func = "negative_edge_cycle") =>
        <<G_nodes, G_succ, G_pred>> = G_before

\* C7 witness: the call returned true, so Unbounded was raised inside the try
\* block while the sentinel and its edges were in G.
C7_Witness ==
    /\ pc = "done" /\ func = "negative_edge_cycle" /\ result = Some(TRUE)
    /\ G_nodes # {}

(***************************************************************************)
(* Multi-source collapse: the multi-source run on G, then the single-source *)
(* run from a super-source on G' = G plus the node newnode with a           *)
(* zero-weight edge to every source.                                        *)
(***************************************************************************)
RECURSIVE AddSuperSource(_, _, _)
AddSuperSource(g, S, i) ==
    IF i > Len(S) THEN g
    ELSE AddSuperSource(AddEdge(AddNode(g, newnode), directed, newnode, S[i], Some(0)), S, i + 1)

\* Between the two calls: keep the first result, build G', start afresh.
add_super_source ==
    /\ pc = "done"
    /\ func = "multi_source_dijkstra_path_length"
    /\ prev_result = None
    /\ LET g == AddSuperSource(<<G_succ, G_pred>>, sources, 1)
       IN  /\ G_succ' = g[1]
           /\ G_pred' = g[2]
           /\ G_nodes' = DOMAIN g[1]
    /\ prev_result' = Some(<<err, result>>)
    /\ func' = "single_source_dijkstra_path_length"
    /\ sources' = <<newnode>>
    /\ dist' = Empty /\ seen' = Empty /\ fringe' = {} /\ c' = 0
    /\ pc' = "call" /\ err' = NoErr /\ result' = None
    /\ UNCHANGED <<directed, G_before, target, cutoff, node_weight, hidden, heuristic,
                   paths, pred, otherVars>>

InitCollapse ==
    /\ InitGraph(NonNegWeights, 1)
    /\ func = "multi_source_dijkstra_path_length"
    /\ \E k \in 1..MaxNodes : k <= Cardinality(G_nodes) /\ sources = FirstNodes(k)
    /\ target = None /\ cutoff = None /\ node_weight = None /\ heuristic = FALSE
    /\ hidden = {}
    /\ InitLocals

NextCollapse ==
    \/ multi_source_dijkstra_path_length
    \/ add_super_source
    \/ single_source_dijkstra_path_length
    \/ _dijkstra_multisource

SpecCollapse == InitCollapse /\ [][NextCollapse]_vars

\* C11: the distance map of the multi-source run from S on G equals, on the
\* nodes of G, the distance map of the single-source run from the super-source
\* on G'.
C11_MultiSourceCollapse ==
    (pc = "done" /\ func = "single_source_dijkstra_path_length" /\ prev_result # None) =>
        The(prev_result)[2] = Some([v \in DOMAIN dist \ {newnode} |-> dist[v]])

\* C11 witness: both runs are over, there were two sources, and a node that
\* is no source lies at a positive distance.
C11_Witness ==
    /\ pc = "done" /\ func = "single_source_dijkstra_path_length" /\ prev_result # None
    /\ Cardinality(Nbrs(G_succ, newnode)) >= 2
    /\ \E v \in DOMAIN dist : v # newnode /\ v \notin Nbrs(G_succ, newnode) /\ dist[v] > 0

(***************************************************************************)
(* The facades that take a source, called with a source that is not in G.  *)
(***************************************************************************)
SourceFacades ==
    {"dijkstra_path", "dijkstra_path_length", "single_source_dijkstra",
     "multi_source_dijkstra", "bellman_ford_path", "bellman_ford_path_length",
     "single_source_bellman_ford", "bellman_ford_predecessor_and_distance",
     "goldberg_radzik", "bidirectional_dijkstra"}

\* The facades whose target is a required argument, and those that have none.
TargetRequired ==
    {"dijkstra_path", "dijkstra_path_length", "bellman_ford_path",
     "bellman_ford_path_length", "bidirectional_dijkstra"}
TargetAbsent == {"bellman_ford_predecessor_and_distance", "goldberg_radzik"}

\* A node that is not in G.
Missing == MaxNodes + 1

SourceMissing == \E i \in 1..Len(sources) : sources[i] \notin G_nodes

InitNodeNotFound ==
    /\ InitGraph(NonNegWeights, 0)
    /\ func \in SourceFacades
    /\ \/ sources = <<Missing>>
       \/ /\ func = "multi_source_dijkstra"
          /\ \E v \in G_nodes : sources \in {<<v, Missing>>, <<Missing, v>>}
    /\ target \in {None} \cup {Some(t) : t \in G_nodes \cup {Missing}}
    /\ func \in TargetRequired => target # None
    /\ func \in TargetAbsent => target = None
    /\ heuristic \in BOOLEAN
    /\ func # "bellman_ford_predecessor_and_distance" => heuristic = FALSE
    /\ cutoff = None /\ node_weight = None
    /\ hidden = {}
    /\ InitLocals

NextNodeNotFound ==
    \/ dijkstra_path
    \/ dijkstra_path_length
    \/ single_source_dijkstra
    \/ multi_source_dijkstra
    \/ bellman_ford_path
    \/ bellman_ford_path_length
    \/ single_source_bellman_ford
    \/ bellman_ford_predecessor_and_distance
    \/ goldberg_radzik
    \/ bidirectional_dijkstra

SpecNodeNotFound == InitNodeNotFound /\ [][NextNodeNotFound]_vars

\* C12: when a source is not a node of G, every Dijkstra and Bellman-Ford
\* facade that takes a source raises NodeNotFound, whatever the target is, the
\* missing source itself included.
C12_NodeNotFound ==
    (Terminated /\ func \in SourceFacades /\ SourceMissing) => err = "NodeNotFound"

(***************************************************************************)
(* The pairwise facades, called with source and target both in G.          *)
(***************************************************************************)
DijkstraPairwise == {"dijkstra_path", "dijkstra_path_length", "bidirectional_dijkstra"}
BellmanFordPairwise == {"bellman_ford_path", "bellman_ford_path_length"}

InitPairwise ==
    /\ \/ InitGraph(NonNegWeights, 1) /\ func \in DijkstraPairwise
       \/ InitGraph(AnyWeights, 1) /\ func \in BellmanFordPairwise
    /\ sources = <<1>>
    /\ target \in {Some(t) : t \in G_nodes}
    /\ heuristic = FALSE /\ cutoff = None /\ node_weight = None
    /\ hidden = {}
    /\ InitLocals

NextPairwise ==
    \/ dijkstra_path
    \/ dijkstra_path_length
    \/ _dijkstra_multisource
    \/ bidirectional_dijkstra
    \/ bidirectional_dijkstra_loop
    \/ bellman_ford_path
    \/ bellman_ford_path_length
    \/ _bellman_ford

SpecPairwise == InitPairwise /\ [][NextPairwise]_vars

\* C13: with source and target in G, and no negative weights (Dijkstra
\* family) or no negative cycle (Bellman-Ford family), a pairwise facade
\* raises NoPath exactly when no path from source to target exists, and
\* returns a value only when one exists.
C13_NoPathIff ==
    (Terminated /\ func \in DijkstraPairwise \cup BellmanFordPairwise
       /\ ~NegCycleReachable(G_succ, G_nodes)) =>
        LET connected == The(target) \in Reachable(G_succ, SourceSet)
        IN  /\ (err = "NoPath") <=> ~connected
            /\ (pc = "done") => connected

\* C13 witness: NoPath is raised after the search reached a node other than
\* the source.
C13_Witness ==
    /\ pc = "raised" /\ err = "NoPath" /\ func \in DijkstraPairwise \cup BellmanFordPairwise
    /\ \/ Cardinality(DOMAIN dist) >= 2
       \/ Cardinality(DOMAIN dists[1]) >= 2

(***************************************************************************)
(* The Bellman-Ford entry points and goldberg_radzik on graphs that have a *)
(* self-loop of negative weight.                                           *)
(***************************************************************************)
SelfLoopFacades ==
    {"bellman_ford_predecessor_and_distance", "single_source_bellman_ford",
     "bellman_ford_path_length", "single_source_bellman_ford_path_length",
     "goldberg_radzik"}

InitSelfLoop ==
    /\ InitGraph(AnyWeights, 1)
    /\ NegativeSelfLoop
    /\ func \in SelfLoopFacades
    /\ sources = <<1>>
    /\ target \in {None} \cup {Some(t) : t \in G_nodes}
    /\ func = "bellman_ford_path_length" => target # None
    /\ func \notin {"bellman_ford_path_length", "single_source_bellman_ford"} => target = None
    /\ heuristic \in BOOLEAN
    /\ func # "bellman_ford_predecessor_and_distance" => heuristic = FALSE
    /\ cutoff = None /\ node_weight = None
    /\ hidden = {}
    /\ InitLocals

NextSelfLoop ==
    \/ bellman_ford_predecessor_and_distance
    \/ single_source_bellman_ford
    \/ bellman_ford_path_length
    \/ single_source_bellman_ford_path_length
    \/ goldberg_radzik
    \/ _bellman_ford

SpecSelfLoop == InitSelfLoop /\ [][NextSelfLoop]_vars

\* C14: on a graph with a self-loop of negative weight, with the source in G,
\* every Bellman-Ford entry point and goldberg_radzik raise Unbounded, and
\* the main loop is never entered.
C14_SelfLoopPrecheck ==
    (func \in SelfLoopFacades /\ NegativeSelfLoop /\ sources[1] \in G_nodes) =>
        /\ pc \notin {"bellman_ford", "topo_sort", "relax"}
        /\ Terminated => err = "Unbounded"

(***************************************************************************)
(* A weight callable that returns None for the pairs in hidden: the call   *)
(* on G, then the same call on G without the edges the callable hides.     *)
(***************************************************************************)
Arcs(adj) == {a \in (DOMAIN adj) \X (DOMAIN adj) : HasNbr(adj, a[1], a[2])}

\* The adjacency lists without the entries of the hidden pairs; forward tells
\* whether adj maps a tail to its heads.
RemoveArcs(adj, H, forward) ==
    [u \in DOMAIN adj |->
        LET Kept(x) == IF forward THEN <<u, x[1]>> \notin H ELSE <<x[1], u>> \notin H
        IN  SelectSeq(adj[u], Kept)]

\* Between the two calls: keep the first outcome, drop the hidden edges,
\* start afresh with a callable that hides nothing.
remove_hidden_edges ==
    /\ Terminated
    /\ prev_result = None
    /\ hidden # {}
    /\ prev_result' = Some(<<err, result>>)
    /\ G_succ' = RemoveArcs(G_succ, hidden, TRUE)
    /\ G_pred' = RemoveArcs(G_pred, hidden, FALSE)
    /\ hidden' = {}
    /\ dist' = Empty /\ seen' = Empty /\ fringe' = {} /\ c' = 0
    /\ paths' = Empty /\ pred' = Empty
    /\ dists' = <<Empty, Empty>> /\ finaldist' = None /\ finalpath' = <<>> /\ dir' = 1
    /\ pc' = "call" /\ err' = NoErr /\ result' = None
    /\ UNCHANGED <<G_nodes, directed, G_before, func, sources, target, cutoff, node_weight,
                   heuristic, bfVars, grVars, johnVars>>

InitHidden ==
    /\ InitGraph(NonNegWeights, 1)
    /\ func \in {"single_source_dijkstra", "bidirectional_dijkstra"}
    /\ sources = <<1>>
    /\ IF func = "bidirectional_dijkstra"
       THEN target \in {Some(t) : t \in G_nodes} /\ node_weight = None
       ELSE target = None /\ node_weight \in {None, Some([v \in G_nodes |-> 1])}
    /\ hidden \in SUBSET Arcs(G_succ)
    /\ hidden # {}
    /\ ~directed => \A a \in hidden : <<a[2], a[1]>> \in hidden
    /\ cutoff = None /\ heuristic = FALSE
    /\ InitLocals

NextHidden ==
    \/ single_source_dijkstra
    \/ _dijkstra_multisource
    \/ bidirectional_dijkstra
    \/ bidirectional_dijkstra_loop
    \/ remove_hidden_edges

SpecHidden == InitHidden /\ [][NextHidden]_vars

\* C17: when the weight callable returns None for some edges, the call ends
\* as the same call ends on the graph without those edges: same error or
\* same returned value.
C17_HiddenEdgesSkipped ==
    (Terminated /\ prev_result # None
       /\ func \in {"single_source_dijkstra", "bidirectional_dijkstra"}) =>
        The(prev_result) = <<err, result>>

(***************************************************************************)
(* Dijkstra with a node_weight map and no target                           *)
(***************************************************************************)
InitNodeWeight ==
    /\ InitGraph(NonNegWeights, 1)
    /\ func \in {"single_source_dijkstra", "multi_source_dijkstra"}
    /\ \E k \in 1..MaxNodes :
         /\ k <= Cardinality(G_nodes)
         /\ func = "single_source_dijkstra" => k = 1
         /\ sources = FirstNodes(k)
    /\ node_weight \in {Some(f) : f \in [G_nodes -> NonNegWeights]}
    /\ target = None /\ cutoff = None /\ heuristic = FALSE
    /\ hidden = {}
    /\ InitLocals

NextNodeWeight ==
    \/ single_source_dijkstra
    \/ multi_source_dijkstra
    \/ _dijkstra_multisource

SpecNodeWeight == InitNodeWeight /\ [][NextNodeWeight]_vars

\* C18: with a non-negative node_weight map and no target, dist[v] of every
\* reachable v is the least sum, over the paths from a source to v, of the
\* edge weights plus the node_weight of every node of the path, the source and
\* v included; dist[s] = node_weight[s] for every source s, and the seed
\* bookkeeping seen[s] is that same initial key.
C18_NodeWeightDistances ==
    (pc = "done" /\ func \in {"single_source_dijkstra", "multi_source_dijkstra"}
       /\ node_weight # None) =>
        /\ dist = TrueDist(G_succ, node_weight, SourceSet)
        /\ \A s \in SourceSet :
             /\ dist[s] = The(node_weight)[s]
             /\ seen[s] = The(node_weight)[s]

(***************************************************************************)
(* The Bellman-Ford core on its own: the graphs of InitGraph, and digraphs *)
(* on CoreNodes nodes large enough for a popped node to be skipped.        *)
(***************************************************************************)
CoreNodes == 4
CoreEdges == 4

CoreArcs == {a \in (1..CoreNodes) \X (1..CoreNodes) : a[1] # a[2]}

\* The arcs of A as a list, in lexicographic order.
RECURSIVE SortedArcs(_)
SortedArcs(A) ==
    IF A = {} THEN <<>>
    ELSE LET a == CHOOSE x \in A : \A y \in A :
                     x[1] < y[1] \/ (x[1] = y[1] /\ x[2] <= y[2])
         IN  <<a>> \o SortedArcs(A \ {a})

\* The lists of at most CoreEdges distinct arcs, each in lexicographic order.
CoreEdgeLists == {SortedArcs(B) : B \in {A \in SUBSET CoreArcs : Cardinality(A) <= CoreEdges}}

\* G = nx.DiGraph(); G.add_nodes_from(...); G.add_weighted_edges_from(...)
InitCoreGraph ==
    \E es \in CoreEdgeLists :
      \E ws \in [1..Len(es) -> AnyWeights] :
        LET g == AddEdgesFrom(EmptyGraph(1..CoreNodes), TRUE,
                              [i \in 1..Len(es) |-> <<es[i][1], es[i][2], Some(ws[i])>>], 1)
        IN  /\ G_nodes = 1..CoreNodes
            /\ G_succ = g[1]
            /\ G_pred = g[2]
            /\ directed = TRUE
            /\ G_before = <<1..CoreNodes, g[1], g[2]>>

BellmanFordCore ==
    {"single_source_bellman_ford_path_length", "bellman_ford_predecessor_and_distance"}

InitBellmanFordCore ==
    /\ InitGraph(AnyWeights, 1) \/ InitCoreGraph
    /\ func \in BellmanFordCore
    /\ sources = <<1>>
    /\ heuristic \in IF func = "bellman_ford_predecessor_and_distance" THEN BOOLEAN ELSE {TRUE}
    /\ target = None /\ cutoff = None /\ node_weight = None
    /\ hidden = {}
    /\ InitLocals

NextBellmanFordCore ==
    \/ single_source_bellman_ford_path_length
    \/ bellman_ford_predecessor_and_distance
    \/ _bellman_ford

SpecBellmanFordCore == InitBellmanFordCore /\ [][NextBellmanFordCore]_vars

\* C19: with arbitrary integer weights and no negative cycle reachable from the
\* source, the distance map that single_source_bellman_ford_path_length or
\* bellman_ford_predecessor_and_distance (heuristic on or off) returns has
\* exactly the reachable nodes as keys and the true shortest distances as
\* values, also when popped nodes were skipped because a predecessor was queued.
C19_BellmanFordDistances ==
    (pc = "done" /\ func \in BellmanFordCore /\ ~NegCycleReachable(G_succ, SourceSet)) =>
        /\ dist = TrueDist(G_succ, None, SourceSet)
        /\ DOMAIN dist = Reachable(G_succ, SourceSet)
        /\ result = Some(IF func = "bellman_ford_predecessor_and_distance"
                         THEN <<pred, dist>> ELSE dist)

\* C19 witness: a call returned after a popped node had been skipped, with a
\* negative distance in the map.
C19_Witness ==
    /\ pc = "done" /\ func \in BellmanFordCore /\ skipped
    /\ \E v \in DOMAIN dist : dist[v] < 0

\* C20: when bellman_ford_predecessor_and_distance returns (pred, dist), pred
\* and dist have the same keys and, for every key v other than the source,
\* pred[v] lists exactly the nodes u with an edge (u, v) and
\* dist[u] + w(u, v) = dist[v], each once.
C20_CoOptimalPredecessors ==
    (pc = "done" /\ func = "bellman_ford_predecessor_and_distance") =>
        LET pr == The(result)[1]
            dst == The(result)[2]
        IN  /\ DOMAIN pr = DOMAIN dst
            /\ \A v \in DOMAIN pr \ {sources[1]} :
                 /\ Range(pr[v]) = CoOptimal(dst, v)
                 /\ NoDuplicates(pr[v])

\* C20 witness: a returned pred with two co-optimal predecessors for a node.
C20_Witness ==
    /\ pc = "done" /\ func = "bellman_ford_predecessor_and_distance"
    /\ \E v \in DOMAIN pred \ {sources[1]} : Len(pred[v]) >= 2

\* C21: when bellman_ford_predecessor_and_distance returns, pred[source] is the
\* empty list and dist[source] is 0, on every graph without a reachable
\* negative cycle, zero-weight cycles through the source included.
C21_SourcePredEmpty ==
    (pc = "done" /\ func = "bellman_ford_predecessor_and_distance"
       /\ ~NegCycleReachable(G_succ, SourceSet)) =>
        /\ The(result)[1][sources[1]] = <<>>
        /\ The(result)[2][sources[1]] = 0

RECURSIVE PredWalk(_, _, _)
PredWalk(pr, v, k) ==
    IF k = 0 \/ pr[v] = None THEN v ELSE PredWalk(pr, The(pr[v]), k - 1)

\* C23: when goldberg_radzik returns (pred, dist), pred is a shortest-path
\* tree rooted at the source: pred[source] is null, every other key v has
\* pred[v] = u with an edge (u, v) and dist[u] + w(u, v) = dist[v], and the
\* pred pointers lead from every key to the source without a cycle.
C23_ShortestPathTree ==
    (pc = "done" /\ func = "goldberg_radzik") =>
        LET pr == The(result)[1]
            dst == The(result)[2]
        IN  /\ pr[sources[1]] = None
            /\ \A v \in DOMAIN pr \ {sources[1]} :
                 /\ pr[v] # None
                 /\ The(pr[v]) \in CoOptimal(dst, v)
            /\ \A v \in DOMAIN pr : PredWalk(pr, v, Cardinality(G_nodes)) = sources[1]

(***************************************************************************)
(* Length-only facades against single_source_dijkstra: the length-only     *)
(* call, then single_source_dijkstra with the same arguments.  Each item   *)
(* of all_pairs_dijkstra_path_length is the single-source length call from *)
(* that node, each item of all_pairs_dijkstra the single_source_dijkstra   *)
(* call from it.                                                           *)
(***************************************************************************)
LengthFacades == {"dijkstra_path_length", "single_source_dijkstra_path_length"}

\* Between the two calls: keep the first result, start afresh.
call_with_paths ==
    /\ Terminated
    /\ func \in LengthFacades
    /\ prev_result = None
    /\ prev_result' = Some(<<err, result>>)
    /\ func' = "single_source_dijkstra"
    /\ dist' = Empty /\ seen' = Empty /\ fringe' = {} /\ c' = 0
    /\ paths' = Empty /\ pred' = Empty
    /\ pc' = "call" /\ err' = NoErr /\ result' = None
    /\ UNCHANGED <<G_nodes, G_succ, G_pred, directed, G_before, sources, target, cutoff,
                   node_weight, hidden, heuristic, otherVars>>

InitLengthFacades ==
    /\ InitGraph(NonNegWeights, 1)
    /\ func \in LengthFacades
    /\ \E n \in G_nodes : sources = <<n>>
    /\ IF func = "dijkstra_path_length"
       THEN target \in {Some(t) : t \in G_nodes} /\ cutoff = None
       ELSE target = None /\ cutoff \in {None, Some(MaxWeight)}
    /\ node_weight \in NodeWeights(G_nodes)
    /\ heuristic = FALSE
    /\ hidden = {}
    /\ InitLocals

NextLengthFacades ==
    \/ dijkstra_path_length
    \/ single_source_dijkstra_path_length
    \/ call_with_paths
    \/ single_source_dijkstra
    \/ _dijkstra_multisource

SpecLengthFacades == InitLengthFacades /\ [][NextLengthFacades]_vars

\* C24: a length-only Dijkstra facade returns the lengths that
\* single_source_dijkstra returns (first component) for the same arguments, a
\* node_weight included: both raise the same error or the lengths are equal.
C24_LengthFacadesAgree ==
    (Terminated /\ prev_result # None /\ func = "single_source_dijkstra") =>
        /\ The(prev_result)[1] = err
        /\ err = NoErr => The(The(prev_result)[2]) = The(result)[1]

(***************************************************************************)
(* The Dijkstra core with paths or pred on graphs large enough for a node  *)
(* to be pushed twice and for a finalized node to be reached again.        *)
(***************************************************************************)
NonNegativeWeights ==
    \A u \in G_nodes : \A i \in 1..Len(G_succ[u]) :
        weight(u, G_succ[u][i][1], G_succ[u][i][2]) >= 0

InitFinalized ==
    /\ InitGraph(NonNegWeights, 1) \/ (InitCoreGraph /\ NonNegativeWeights)
    /\ func \in {"multi_source_dijkstra", "dijkstra_predecessor_and_distance"}
    /\ \E k \in 1..2 :
         /\ k <= Cardinality(G_nodes)
         /\ func = "dijkstra_predecessor_and_distance" => k = 1
         /\ sources = FirstNodes(k)
    /\ target = None /\ cutoff = None /\ node_weight = None /\ heuristic = FALSE
    /\ hidden = {}
    /\ InitLocals

NextFinalized ==
    \/ multi_source_dijkstra
    \/ dijkstra_predecessor_and_distance
    \/ _dijkstra_multisource

SpecFinalized == InitFinalized /\ [][NextFinalized]_vars

IsPrefix(a, b) == Len(a) <= Len(b) /\ SubSeq(b, 1, Len(a)) = a

\* C25: in _dijkstra_multisource, once v is finalized (v is a key of dist), no
\* later step of the call changes dist[v] or paths[v], and pred[v] is only
\* extended by appending: the old list stays a prefix of the new one.
C25_FinalizedFrozen ==
    [][pc = "dijkstra" =>
         \A v \in DOMAIN dist :
             /\ v \in DOMAIN dist' /\ dist'[v] = dist[v]
             /\ v \in DOMAIN paths => (v \in DOMAIN paths' /\ paths'[v] = paths[v])
             /\ v \in DOMAIN pred => (v \in DOMAIN pred' /\ IsPrefix(pred[v], pred'[v]))]_vars

\* C25 witness: the single source, finalized at the first pop, received a
\* predecessor from a later relaxation at equal distance, and another
\* finalized node has two predecessors.
C25_Witness ==
    /\ func = "dijkstra_predecessor_and_distance" /\ pc = "done"
    /\ pred[sources[1]] # <<>>
    /\ \E v \in DOMAIN dist \ {sources[1]} : Len(pred[v]) >= 2

(***************************************************************************)
(* The call without a target, then the same call with a target that is a   *)
(* key of the first result.                                                *)
(***************************************************************************)
TargetFacades == {"multi_source_dijkstra", "single_source_dijkstra"}

\* Between the two calls: keep the first result, pick the target, start afresh.
call_with_target ==
    /\ pc = "done"
    /\ func \in TargetFacades
    /\ prev_result = None
    /\ target = None
    /\ \E t \in DOMAIN The(result)[1] : target' = Some(t)
    /\ prev_result' = Some(<<err, result>>)
    /\ dist' = Empty /\ seen' = Empty /\ fringe' = {} /\ c' = 0
    /\ paths' = Empty /\ pred' = Empty
    /\ pc' = "call" /\ err' = NoErr /\ result' = None
    /\ UNCHANGED <<G_nodes, G_succ, G_pred, directed, G_before, func, sources, cutoff,
                   node_weight, hidden, heuristic, otherVars>>

InitTarget ==
    /\ InitGraph(NonNegWeights, 1)
    /\ func \in TargetFacades
    /\ \E k \in 1..MaxNodes :
         /\ k <= Cardinality(G_nodes)
         /\ func = "single_source_dijkstra" => k = 1
         /\ sources = FirstNodes(k)
    /\ target = None
    /\ cutoff \in {None, Some(MaxWeight)}
    /\ node_weight \in NodeWeights(G_nodes)
    /\ heuristic = FALSE
    /\ hidden = {}
    /\ InitLocals

NextTarget ==
    \/ multi_source_dijkstra
    \/ single_source_dijkstra
    \/ call_with_target
    \/ _dijkstra_multisource

SpecTarget == InitTarget /\ [][NextTarget]_vars

\* C26: with non-negative weights, multi_source_dijkstra or
\* single_source_dijkstra called with a target t that is a key of the result
\* of the same call without a target returns exactly (dist[t], paths[t]) of
\* that result, also when t is a source.
C26_TargetProjection ==
    (Terminated /\ func \in TargetFacades /\ prev_result # None /\ target # None) =>
        LET t == The(target)
            all == The(The(prev_result)[2])
        IN  /\ err = NoErr
            /\ result = Some(<<all[1][t], all[2][t]>>)

(***************************************************************************)
(* bidirectional_dijkstra on graphs with weights of either sign and every  *)
(* target.                                                                 *)
(***************************************************************************)
InitMeeting ==
    /\ InitGraph(AnyWeights, 1)
    /\ func = "bidirectional_dijkstra"
    /\ sources = <<1>>
    /\ target \in {Some(t) : t \in G_nodes}
    /\ heuristic = FALSE /\ cutoff = None /\ node_weight = None
    /\ hidden = {}
    /\ InitLocals

SpecMeeting == InitMeeting /\ [][NextBidirectional]_vars

\* The meeting condition fires in the iteration that starts in this state.
MeetingFires ==
    /\ pc = "bidirectional" /\ fringe[1] # {} /\ fringe[2] # {}
    /\ BidirIteration.ret

\* C27: in bidirectional_dijkstra, whenever the meeting condition fires (the
\* popped node is already in the other direction's final distances), an
\* earlier relaxation has assigned finaldist and finalpath is not empty: the
\* return never reads an unassigned finaldist nor returns an empty path.
C27_MeetingHasFinalPath ==
    /\ MeetingFires => (finaldist # None /\ finalpath # <<>>)
    /\ err # "UnboundLocalError"
    /\ (pc = "done" /\ func = "bidirectional_dijkstra") => The(result)[2] # <<>>

\* C27 witness: the meeting condition is about to fire with a final path
\* through a third node.
C27_Witness == MeetingFires /\ Len(finalpath) >= 3

(***************************************************************************)
(* bellman_ford_predecessor_and_distance with heuristic=True, then the     *)
(* same call with heuristic=False.                                         *)
(***************************************************************************)
\* Between the two calls: keep the first outcome, start afresh.
call_without_heuristic ==
    /\ Terminated
    /\ func = "bellman_ford_predecessor_and_distance"
    /\ heuristic
    /\ prev_result = None
    /\ prev_result' = Some(<<err, result>>)
    /\ heuristic' = FALSE
    /\ dist' = Empty /\ pred' = Empty /\ paths' = Empty
    /\ q' = <<>> /\ in_q' = {} /\ count' = Empty /\ pred_edge' = Empty
    /\ recent_update' = Empty /\ skipped' = FALSE
    /\ pc' = "call" /\ err' = NoErr /\ result' = None
    /\ UNCHANGED <<G_nodes, G_succ, G_pred, directed, G_before, func, sources, target, cutoff,
                   node_weight, hidden, seen, fringe, c, grVars, biVars, johnVars>>

InitHeuristic ==
    /\ InitGraph(AnyWeights, 1) \/ InitCoreGraph
    /\ func = "bellman_ford_predecessor_and_distance"
    /\ sources = <<1>>
    /\ heuristic = TRUE
    /\ target = None /\ cutoff = None /\ node_weight = None
    /\ hidden = {}
    /\ InitLocals

NextHeuristic ==
    \/ bellman_ford_predecessor_and_distance
    \/ _bellman_ford
    \/ call_without_heuristic

SpecHeuristic == InitHeuristic /\ [][NextHeuristic]_vars

\* C28: the Bellman-Ford core gives the same outcome with heuristic=True and
\* with heuristic=False: both raise Unbounded or both return the same pred and
\* dist; and neither the recent_update/pred_edge heuristic nor the enqueue
\* counter raises when no negative cycle is reachable from the source.
C28_HeuristicSameOutcome ==
    /\ (Terminated /\ prev_result # None) => The(prev_result) = <<err, result>>
    /\ (Terminated /\ ~NegCycleReachable(G_succ, SourceSet) /\ ~NegativeSelfLoop) =>
          err = NoErr

\* C28 witness: both calls raised Unbounded on a graph without a negative
\* self-loop.
C28_Witness ==
    /\ Terminated /\ prev_result # None /\ err = "Unbounded" /\ ~NegativeSelfLoop
    /\ The(prev_result)[1] = "Unbounded"

(***************************************************************************)
(* Termination of the Bellman-Ford core and of goldberg_radzik: the call   *)
(* keeps running, so every enabled step is eventually taken.               *)
(***************************************************************************)
InitTermination ==
    /\ InitGraph(AnyWeights, 1)
    /\ func \in {"bellman_ford_predecessor_and_distance",
                 "single_source_bellman_ford_path_length", "goldberg_radzik"}
    /\ sources = <<1>>
    /\ heuristic \in IF func = "bellman_ford_predecessor_and_distance" THEN BOOLEAN ELSE {TRUE}
    /\ target = None /\ cutoff = None /\ node_weight = None
    /\ hidden = {}
    /\ InitLocals

NextTermination ==
    \/ bellman_ford_predecessor_and_distance
    \/ single_source_bellman_ford_path_length
    \/ _bellman_ford
    \/ goldberg_radzik
    \/ topo_sort
    \/ relax

SpecTermination == InitTermination /\ [][NextTermination]_vars /\ WF_vars(NextTermination)

InitContradictory ==
    /\ \/ /\ InitGraph(NonNegWeights, 1)
          /\ func \in {"multi_source_dijkstra", "bidirectional_dijkstra"}
          /\ IF func = "bidirectional_dijkstra"
             THEN /\ sources = <<1>>
                  /\ target \in {Some(t) : t \in G_nodes}
                  /\ cutoff = None /\ node_weight = None
             ELSE /\ \E k \in 1..MaxNodes : k <= Cardinality(G_nodes) /\ sources = FirstNodes(k)
                  /\ target \in {None} \cup {Some(t) : t \in G_nodes}
                  /\ cutoff \in {None, Some(MaxWeight)}
                  /\ node_weight \in NodeWeights(G_nodes)
       \/ /\ InitCoreGraph /\ NonNegativeWeights
          /\ func \in {"multi_source_dijkstra", "bidirectional_dijkstra"}
          /\ sources = <<1>>
          /\ IF func = "bidirectional_dijkstra"
             THEN target \in {Some(t) : t \in G_nodes \ {1}}
             ELSE target = None
          /\ cutoff = None
          /\ node_weight \in {None, Some([v \in G_nodes |-> 1])}
          /\ func = "bidirectional_dijkstra" => node_weight = None
    /\ heuristic = FALSE
    /\ hidden = {}
    /\ InitLocals

NextContradictory ==
    \/ multi_source_dijkstra
    \/ _dijkstra_multisource
    \/ bidirectional_dijkstra
    \/ bidirectional_dijkstra_loop

SpecContradictory == InitContradictory /\ [][NextContradictory]_vars

\* C30: with non-negative edge weights and node weights, for every source
\* set, target and cutoff, neither _dijkstra_multisource nor
\* bidirectional_dijkstra raises the "Contradictory paths found" ValueError:
\* nodes are finalized in non-decreasing order of distance, so every heap
\* entry of a node still to be finalized is at least every final distance.
C30_NeverContradictory ==
    /\ err # "Contradictory"
    /\ pc = "dijkstra" =>
          \A t \in fringe : \A v \in DOMAIN dist :
              t[3] \notin DOMAIN dist => t[1] >= dist[v]

\* C30 witness: a call ran to its end after the relaxation of an edge into a
\* node finalized earlier at a strictly smaller distance.
C30_Witness ==
    /\ pc = "done" /\ func = "multi_source_dijkstra" /\ target = None /\ cutoff = None
    /\ \E v, u \in DOMAIN dist : u \in Nbrs(G_succ, v) /\ dist[v] > dist[u]

====
